---- MODULE Spec2Model ----
(***************************************************************************)
(* A model of the filestorage engine (crates/filestorage-core/src/lib.rs): *)
(* key validation, key-to-path resolution, and put / get / delete on a     *)
(* filesystem tree.  Texts (keys, paths) are sequences of one-character    *)
(* strings, so that parsing, joining and validation are computed on the    *)
(* text as the code computes them.  The platform is Unix: the separator is *)
(* "/" and a path is absolute iff it starts with "/".                      *)
(***************************************************************************)
EXTENDS Integers, Sequences, FiniteSets, TLC

VARIABLES dirs, files, last, probe, tasks, server

vars == <<dirs, files, last, probe, tasks, server>>

(***************************************************************************)
(* Bounds and input sets                                                   *)
(***************************************************************************)
\* longest key text given to path_for in SpecKey
MaxKeyLen == 5
\* most segments of a key given to put / get / delete in Spec
MaxSegs == 2
\* most directories and files under the storage root in Spec
MaxNodes == 2
\* most segments of a nested key in SpecNested
MaxDepth == 3
\* most directories and files under the storage root in SpecNested
MaxTree == 3

\* characters of key texts in SpecKey
Chars == {"a", ".", "/"}
\* segments the keys of Spec are joined from
Segs == {<<>>, <<".">>, <<".", ".">>, <<"a">>, <<"b">>}
\* object contents: empty, and two different bytes
Data == {<<>>, <<1, 2>>}
\* the plain names the nested keys of SpecNested are joined from
Names == {<<"a">>, <<"b">>}
\* the tasks that run operations at the same time in SpecConc
Procs == {"p", "q"}
\* the keys of SpecConc: two objects under one directory, and the key that
\* names that directory
ConcKeys == {<<"c">>, <<"c", "/", "a">>, <<"c", "/", "b">>}
\* object contents in SpecConc: one byte, and two other bytes
ConcData == {<<3>>, <<1, 2>>}

(***************************************************************************)
(* Text helpers                                                            *)
(***************************************************************************)
RECURSIVE SplitFrom(_, _, _)
SplitFrom(text, i, cur) ==
    IF i > Len(text) THEN <<cur>>
    ELSE IF text[i] = "/" THEN <<cur>> \o SplitFrom(text, i + 1, <<>>)
    ELSE SplitFrom(text, i + 1, Append(cur, text[i]))

\* the raw segments of a text: what lies between its separators
Split(text) == SplitFrom(text, 1, <<>>)

RECURSIVE JoinSegs(_)
JoinSegs(segs) ==
    IF Len(segs) = 0 THEN <<>>
    ELSE IF Len(segs) = 1 THEN segs[1]
    ELSE segs[1] \o <<"/">> \o JoinSegs(Tail(segs))

Front(s) == SubSeq(s, 1, Len(s) - 1)

IsPrefix(p, q) == Len(p) <= Len(q) /\ SubSeq(q, 1, Len(p)) = p

(***************************************************************************)
(* std::path on Unix: Path::is_absolute, Path::components, Path::parent,   *)
(* Path::join                                                              *)
(***************************************************************************)
Comp(kind, name) == [kind |-> kind, name |-> name]

is_absolute(text) == Len(text) > 0 /\ text[1] = "/"

\* SegComponent without the normalisation: every "." is CurDir and every empty
\* segment is kept, as a plain split on the separator would give
SegComponentLiteral(seg, i, rooted) ==
    IF seg = <<>> THEN (IF i = 1 /\ rooted THEN <<>> ELSE <<Comp("CurDir", <<>>)>>)
    ELSE IF seg = <<".">> THEN <<Comp("CurDir", <<>>)>>
    ELSE IF seg = <<".", ".">> THEN <<Comp("ParentDir", <<>>)>>
    ELSE <<Comp("Normal", seg)>>

\* One raw segment at position i of a text's segments, as components() yields
\* it: empty segments and "." are normalised away, except a leading "." of a
\* relative path, which is CurDir.
SegComponent(seg, i, rooted) ==
    IF seg = <<>> THEN <<>>
    ELSE IF seg = <<".">> THEN
        IF i = 1 /\ ~rooted THEN <<Comp("CurDir", <<>>)>> ELSE <<>>
    ELSE IF seg = <<".", ".">> THEN <<Comp("ParentDir", <<>>)>>
    ELSE <<Comp("Normal", seg)>>

RECURSIVE SegComponents(_, _, _)
SegComponents(segs, i, rooted) ==
    IF i > Len(segs) THEN <<>>
    ELSE SegComponent(segs[i], i, rooted) \o SegComponents(segs, i + 1, rooted)

components(text) ==
    IF Len(text) = 0 THEN <<>>
    ELSE (IF is_absolute(text) THEN <<Comp("RootDir", <<>>)>> ELSE <<>>)
         \o SegComponents(Split(text), 1, is_absolute(text))

CompText(c) ==
    CASE c.kind = "Normal" -> c.name
      [] c.kind = "CurDir" -> <<".">>
      [] c.kind = "ParentDir" -> <<".", ".">>
      [] OTHER -> <<>>

\* the text of a component sequence (Components::as_path, normalised)
RECURSIVE RenderComps(_)
RenderComps(cs) ==
    IF Len(cs) = 0 THEN <<>>
    ELSE IF cs[1].kind = "RootDir" THEN <<"/">> \o RenderComps(Tail(cs))
    ELSE IF Len(cs) = 1 THEN CompText(cs[1])
    ELSE CompText(cs[1]) \o <<"/">> \o RenderComps(Tail(cs))

\* Path::parent: the path without its last component; none for "/" and "".
parent(text) ==
    LET cs == components(text) IN
    IF Len(cs) = 0 \/ cs[Len(cs)].kind = "RootDir"
    THEN [some |-> FALSE, text |-> <<>>]
    ELSE [some |-> TRUE, text |-> RenderComps(Front(cs))]

\* Path::join: an absolute argument replaces the base.
join(base, text) ==
    IF is_absolute(text) THEN text
    ELSE IF Len(base) = 0 \/ base[Len(base)] = "/" THEN base \o text
    ELSE base \o <<"/">> \o text

(***************************************************************************)
(* StorageError and the results of the operations                          *)
(***************************************************************************)
\* a formatted message: the format string and the key it interpolates at {key}
\* (the code writes the key between backquotes)
NoMsg == [text |-> "", arg |-> <<>>]

Ok(bytes) == [kind |-> "Ok", msg |-> NoMsg, key |-> <<>>, bytes |-> bytes, err |-> ""]

InvalidKey(text, arg) ==
    [kind |-> "InvalidKey", msg |-> [text |-> text, arg |-> arg],
     key |-> <<>>, bytes |-> <<>>, err |-> ""]

NotFound(key) == [kind |-> "NotFound", msg |-> NoMsg, key |-> key, bytes |-> <<>>, err |-> ""]

\* StorageError::Io carrying the errno of the failed filesystem call
Io(err) == [kind |-> "Io", msg |-> NoMsg, key |-> <<>>, bytes |-> <<>>, err |-> err]

(***************************************************************************)
(* validate_key and path_for                                               *)
(***************************************************************************)
\* the storage root: the directory /r
RootText == <<"/", "r">>

AllNormal(cs) == \A i \in 1..Len(cs) : cs[i].kind = "Normal"

\* validate_key without the loop over the components
validate_key_no_segments(key) ==
    IF Len(key) = 0 THEN InvalidKey("key cannot be empty", <<>>)
    ELSE IF is_absolute(key)
    THEN InvalidKey("absolute paths are not allowed (got {key})", key)
    ELSE Ok(<<>>)

\* validate_key without the test for the empty key
validate_key_no_empty(key) ==
    IF is_absolute(key)
    THEN InvalidKey("absolute paths are not allowed (got {key})", key)
    ELSE IF ~AllNormal(components(key))
    THEN InvalidKey("{key} contains unsupported segments", key)
    ELSE Ok(<<>>)

\* validate_key with the loop over the components before the absolute test
validate_key_segments_first(key) ==
    IF Len(key) = 0 THEN InvalidKey("key cannot be empty", <<>>)
    ELSE IF ~AllNormal(components(key))
    THEN InvalidKey("{key} contains unsupported segments", key)
    ELSE IF is_absolute(key)
    THEN InvalidKey("absolute paths are not allowed (got {key})", key)
    ELSE Ok(<<>>)

validate_key(key) ==
    IF Len(key) = 0 THEN InvalidKey("key cannot be empty", <<>>)
    ELSE IF is_absolute(key)
    THEN InvalidKey("absolute paths are not allowed (got {key})", key)
    ELSE IF ~AllNormal(components(key))
    THEN InvalidKey("{key} contains unsupported segments", key)
    ELSE Ok(<<>>)

\* Result<PathBuf, StorageError>: res is the error, or Ok with the path in path
path_for(key) ==
    LET v == validate_key(key) IN
    IF v.kind # "Ok" THEN [res |-> v, path |-> <<>>]
    ELSE [res |-> v, path |-> join(RootText, key)]

(***************************************************************************)
(* The filesystem.  A node is the sequence of names leading to it from "/" *)
(* (<<>> is "/" itself); fs.dirs is the set of directories and fs.files    *)
(* maps each regular file to its content.  Path lookup follows Linux:      *)
(* every component before the last must be a directory; "." stays, ".."    *)
(* goes up; a trailing "/" asks for a directory.                           *)
(***************************************************************************)
RootNode == <<<<"r">>>>
\* a file outside the storage root: /a
OutsideNode == <<<<"a">>>>
OutsideData == <<1, 1>>

Kind(fs, node) ==
    IF node \in fs.dirs THEN "dir"
    ELSE IF node \in DOMAIN fs.files THEN "file"
    ELSE "none"

InRoot(node) == IsPrefix(RootNode, node)

\* a path walk that takes the empty text between two separators for a name
KernelCompsLiteral(text) ==
    IF Len(text) > 0 /\ text[1] = "/" THEN Tail(Split(text)) ELSE Split(text)

\* the non-empty raw segments: the components the kernel walks
KernelComps(text) == SelectSeq(Split(text), LAMBDA s : s # <<>>)

TrailingSlash(text) == Len(text) > 1 /\ text[Len(text)] = "/"

StepTo(cur, comp) ==
    IF comp = <<".">> THEN cur
    ELSE IF comp = <<".", ".">> THEN (IF Len(cur) = 0 THEN cur ELSE Front(cur))
    ELSE Append(cur, comp)

RECURSIVE Descend(_, _, _, _)
Descend(fs, cur, comps, i) ==
    LET nxt == StepTo(cur, comps[i]) IN
    IF i = Len(comps) THEN [err |-> "", node |-> nxt]
    ELSE IF Kind(fs, nxt) = "dir" THEN Descend(fs, nxt, comps, i + 1)
    ELSE IF Kind(fs, nxt) = "file" THEN [err |-> "ENOTDIR", node |-> nxt]
    ELSE [err |-> "ENOENT", node |-> nxt]

\* the node a path text names, or the error of the walk towards it
Walk(fs, text) ==
    LET comps == KernelComps(text) IN
    IF Len(comps) = 0 THEN [err |-> "", node |-> <<>>]
    ELSE Descend(fs, <<>>, comps, 1)

\* mkdir that puts the directory in the place of a file of that name
SysMkdirOverFile(fs, text) ==
    LET w == Walk(fs, text) IN
    IF w.err # "" THEN [fs |-> fs, err |-> w.err]
    ELSE IF Kind(fs, w.node) = "dir" THEN [fs |-> fs, err |-> "EEXIST"]
    ELSE [fs |-> [dirs |-> fs.dirs \cup {w.node},
                  files |-> [n \in DOMAIN fs.files \ {w.node} |-> fs.files[n]]],
          err |-> ""]

\* mkdir(2)
SysMkdir(fs, text) ==
    LET w == Walk(fs, text) IN
    IF w.err # "" THEN [fs |-> fs, err |-> w.err]
    ELSE IF Kind(fs, w.node) # "none" THEN [fs |-> fs, err |-> "EEXIST"]
    ELSE [fs |-> [fs EXCEPT !.dirs = @ \cup {w.node}], err |-> ""]

\* Path::is_dir
is_dir(fs, text) ==
    LET w == Walk(fs, text) IN w.err = "" /\ Kind(fs, w.node) = "dir"

\* std::fs::create_dir: one mkdir, no parent is created; an existing directory
\* is fine
create_dir(fs, text) ==
    IF Len(text) = 0 THEN [fs |-> fs, err |-> ""]
    ELSE
    LET m == SysMkdir(fs, text) IN
    IF m.err = "" THEN m
    ELSE IF is_dir(fs, text) THEN [fs |-> fs, err |-> ""]
    ELSE m

\* std::fs::create_dir_all (DirBuilder::create_dir_all): mkdir; on ENOENT
\* create the parent first and mkdir again; an existing directory is fine.
RECURSIVE create_dir_all(_, _)
create_dir_all(fs, text) ==
    IF Len(text) = 0 THEN [fs |-> fs, err |-> ""]
    ELSE
    LET m == SysMkdir(fs, text) IN
    IF m.err = "" THEN m
    ELSE IF m.err # "ENOENT" THEN
        (IF is_dir(fs, text) THEN [fs |-> fs, err |-> ""] ELSE m)
    ELSE
    LET p == parent(text) IN
    IF ~p.some THEN [fs |-> fs, err |-> "ENOENT"]
    ELSE
    LET up == create_dir_all(fs, p.text) IN
    IF up.err # "" THEN up
    ELSE
    LET again == SysMkdir(up.fs, text) IN
    IF again.err = "" THEN again
    ELSE IF is_dir(up.fs, text) THEN [fs |-> up.fs, err |-> ""]
    ELSE again

\* open for writing that puts an empty file in the place of a directory
OpenCreateOverDir(fs, text) ==
    LET w == Walk(fs, text) IN
    IF w.err # "" THEN [fs |-> fs, err |-> w.err, node |-> w.node]
    ELSE [fs |-> [dirs |-> fs.dirs \ {w.node},
                  files |-> [n \in DOMAIN fs.files \cup {w.node} |->
                                IF n = w.node THEN <<>> ELSE fs.files[n]]],
          err |-> "", node |-> w.node]

\* open(2) without O_TRUNC: an existing file keeps its content
OpenCreate(fs, text) ==
    LET w == Walk(fs, text) IN
    IF w.err # "" THEN [fs |-> fs, err |-> w.err, node |-> w.node]
    ELSE IF TrailingSlash(text) \/ Kind(fs, w.node) = "dir"
    THEN [fs |-> fs, err |-> "EISDIR", node |-> w.node]
    ELSE [fs |-> [fs EXCEPT !.files =
                    [n \in DOMAIN @ \cup {w.node} |->
                        IF n \in DOMAIN @ THEN @[n] ELSE <<>>]],
          err |-> "", node |-> w.node]

\* open(2) with O_WRONLY | O_CREAT | O_TRUNC (File::create): an existing
\* file is emptied, a missing one is created empty.
OpenCreateTruncate(fs, text) ==
    LET w == Walk(fs, text) IN
    IF w.err # "" THEN [fs |-> fs, err |-> w.err, node |-> w.node]
    ELSE IF TrailingSlash(text) \/ Kind(fs, w.node) = "dir"
    THEN [fs |-> fs, err |-> "EISDIR", node |-> w.node]
    ELSE [fs |-> [fs EXCEPT !.files =
                    [n \in DOMAIN @ \cup {w.node} |-> IF n = w.node THEN <<>> ELSE @[n]]],
          err |-> "", node |-> w.node]

\* one write(2) that the kernel cuts short after the first byte, not retried
WriteOnce(old, data) ==
    LET n == IF Len(data) > 0 THEN 1 ELSE 0 IN
    SubSeq(data, 1, n) \o SubSeq(old, n + 1, Len(old))

\* write_all from offset 0 over the current content of the file
WriteAll(old, data) == data \o SubSeq(old, Len(data) + 1, Len(old))

\* std::fs::write: File::create(path)?.write_all(data)
fs_write(fs, text, data) ==
    LET o == OpenCreateTruncate(fs, text) IN
    IF o.err # "" THEN o
    ELSE [fs |-> [o.fs EXCEPT !.files[o.node] = WriteAll(@, data)],
          err |-> "", node |-> o.node]

\* std::fs::read: open(2) with O_RDONLY, then read to the end
fs_read(fs, text) ==
    LET w == Walk(fs, text) IN
    IF w.err # "" THEN [err |-> w.err, node |-> w.node, bytes |-> <<>>]
    ELSE IF Kind(fs, w.node) = "none" THEN [err |-> "ENOENT", node |-> w.node, bytes |-> <<>>]
    ELSE IF Kind(fs, w.node) = "dir" THEN [err |-> "EISDIR", node |-> w.node, bytes |-> <<>>]
    ELSE IF TrailingSlash(text) THEN [err |-> "ENOTDIR", node |-> w.node, bytes |-> <<>>]
    ELSE [err |-> "", node |-> w.node, bytes |-> fs.files[w.node]]

\* std::fs::remove_file: unlink(2)
fs_remove_file(fs, text) ==
    LET w == Walk(fs, text) IN
    IF w.err # "" THEN [fs |-> fs, err |-> w.err, node |-> w.node]
    ELSE IF Kind(fs, w.node) = "none" THEN [fs |-> fs, err |-> "ENOENT", node |-> w.node]
    ELSE IF Kind(fs, w.node) = "dir" THEN [fs |-> fs, err |-> "EISDIR", node |-> w.node]
    ELSE IF TrailingSlash(text) THEN [fs |-> fs, err |-> "ENOTDIR", node |-> w.node]
    ELSE [fs |-> [fs EXCEPT !.files = [n \in DOMAIN @ \ {w.node} |-> @[n]]],
          err |-> "", node |-> w.node]

\* io::Error::kind() == ErrorKind::NotFound
IsNotFound(err) == err = "ENOENT"

(***************************************************************************)
(* FileStorage: new, put, get, delete.  Each operator takes the filesystem *)
(* and returns the filesystem after the call, the result, the path the     *)
(* call resolved the key to and the filesystem calls it issued, in order.  *)
(***************************************************************************)
Call(name, text, node) == [call |-> name, path |-> text, node |-> node]

Outcome(fs, res, path, calls) == [fs |-> fs, res |-> res, path |-> path, calls |-> calls]

\* new that starts from an empty root: it removes the files under it
new_emptying(fs, root) ==
    LET mk == create_dir_all(fs, root)
        calls == <<Call("create_dir_all", root, Walk(fs, root).node)>>
        under == {n \in DOMAIN mk.fs.files : IsPrefix(Walk(fs, root).node, n)}
    IN IF mk.err # "" THEN Outcome(mk.fs, Io(mk.err), root, calls)
       ELSE Outcome([mk.fs EXCEPT !.files = [n \in DOMAIN @ \ under |-> @[n]]],
                    Ok(<<>>), root, calls)

new(fs, root) ==
    LET mk == create_dir_all(fs, root)
        calls == <<Call("create_dir_all", root, Walk(fs, root).node)>>
    IN IF mk.err # "" THEN Outcome(mk.fs, Io(mk.err), root, calls)
       ELSE Outcome(mk.fs, Ok(<<>>), root, calls)

\* put that joins the key to the root and creates the directories before it
\* validates the key
put_mkdir_first(fs, key, data) ==
    LET path == join(RootText, key)
        par == parent(path)
        mk == IF par.some THEN create_dir_all(fs, par.text) ELSE [fs |-> fs, err |-> ""]
        mkCalls == IF par.some
                   THEN <<Call("create_dir_all", par.text, Walk(fs, par.text).node)>>
                   ELSE <<>>
        p == path_for(key)
    IN
    IF mk.err # "" THEN Outcome(mk.fs, Io(mk.err), path, mkCalls)
    ELSE IF p.res.kind # "Ok" THEN Outcome(mk.fs, p.res, <<>>, mkCalls)
    ELSE
    LET w == fs_write(mk.fs, p.path, data)
        calls == Append(mkCalls, Call("write", p.path, w.node))
    IN IF w.err # "" THEN Outcome(mk.fs, Io(w.err), p.path, calls)
       ELSE Outcome(w.fs, Ok(<<>>), p.path, calls)

put(fs, key, data) ==
    LET p == path_for(key) IN
    IF p.res.kind # "Ok" THEN Outcome(fs, p.res, <<>>, <<>>)
    ELSE
    LET par == parent(p.path)
        mk == IF par.some THEN create_dir_all(fs, par.text) ELSE [fs |-> fs, err |-> ""]
        mkCalls == IF par.some
                   THEN <<Call("create_dir_all", par.text, Walk(fs, par.text).node)>>
                   ELSE <<>>
    IN
    IF mk.err # "" THEN Outcome(mk.fs, Io(mk.err), p.path, mkCalls)
    ELSE
    LET w == fs_write(mk.fs, p.path, data)
        calls == Append(mkCalls, Call("write", p.path, w.node))
    IN IF w.err # "" THEN Outcome(mk.fs, Io(w.err), p.path, calls)
       ELSE Outcome(w.fs, Ok(<<>>), p.path, calls)

\* What the environment does to the two system calls of fs::write: open(2)
\* fails (EMFILE, the process has no file descriptor left), or write(2)
\* fails (ENOSPC, the disk is full) after `written` bytes have gone out.
NoFault == [at |-> "none", written |-> 0]

Faults(data) ==
    {NoFault, [at |-> "open", written |-> 0]}
        \cup {[at |-> "write", written |-> n] : n \in 0..(Len(data) - 1)}

\* std::fs::write under a fault: File::create(path)? truncates the file
\* before write_all(data)? writes, so a failed write leaves what was written
fs_write_under(fs, text, data, fault) ==
    LET o == OpenCreateTruncate(fs, text) IN
    IF fault.at = "open" THEN [fs |-> fs, err |-> "EMFILE", node |-> Walk(fs, text).node]
    ELSE IF o.err # "" THEN o
    ELSE IF fault.at = "write"
    THEN [fs |-> [o.fs EXCEPT !.files[o.node] = WriteAll(@, SubSeq(data, 1, fault.written))],
          err |-> "ENOSPC", node |-> o.node]
    ELSE [fs |-> [o.fs EXCEPT !.files[o.node] = WriteAll(@, data)],
          err |-> "", node |-> o.node]

\* put when the environment may fail a system call of the write
put_under(fs, key, data, fault) ==
    LET p == path_for(key) IN
    IF p.res.kind # "Ok" THEN Outcome(fs, p.res, <<>>, <<>>)
    ELSE
    LET par == parent(p.path)
        mk == IF par.some THEN create_dir_all(fs, par.text) ELSE [fs |-> fs, err |-> ""]
        mkCalls == IF par.some
                   THEN <<Call("create_dir_all", par.text, Walk(fs, par.text).node)>>
                   ELSE <<>>
    IN
    IF mk.err # "" THEN Outcome(mk.fs, Io(mk.err), p.path, mkCalls)
    ELSE
    LET w == fs_write_under(mk.fs, p.path, data, fault)
        calls == Append(mkCalls, Call("write", p.path, w.node))
    IN Outcome(w.fs, IF w.err # "" THEN Io(w.err) ELSE Ok(<<>>), p.path, calls)

\* get that removes the file it has read
get_and_remove(fs, key) ==
    LET p == path_for(key) IN
    IF p.res.kind # "Ok" THEN Outcome(fs, p.res, <<>>, <<>>)
    ELSE
    LET r == fs_read(fs, p.path)
        calls == <<Call("read", p.path, r.node)>>
    IN IF r.err = "" THEN Outcome(fs_remove_file(fs, p.path).fs, Ok(r.bytes), p.path, calls)
       ELSE IF IsNotFound(r.err) THEN Outcome(fs, NotFound(key), p.path, calls)
       ELSE Outcome(fs, Io(r.err), p.path, calls)

get(fs, key) ==
    LET p == path_for(key) IN
    IF p.res.kind # "Ok" THEN Outcome(fs, p.res, <<>>, <<>>)
    ELSE
    LET r == fs_read(fs, p.path)
        calls == <<Call("read", p.path, r.node)>>
    IN IF r.err = "" THEN Outcome(fs, Ok(r.bytes), p.path, calls)
       ELSE IF IsNotFound(r.err) THEN Outcome(fs, NotFound(key), p.path, calls)
       ELSE Outcome(fs, Io(r.err), p.path, calls)

\* delete that issues remove_file a second time when the first one fails
delete_retrying(fs, key) ==
    LET p == path_for(key) IN
    IF p.res.kind # "Ok" THEN Outcome(fs, p.res, <<>>, <<>>)
    ELSE
    LET r == fs_remove_file(fs, p.path)
        calls == <<Call("remove_file", p.path, r.node)>>
    IN IF r.err = "" THEN Outcome(r.fs, Ok(<<>>), p.path, calls)
       ELSE IF IsNotFound(r.err) THEN Outcome(fs, NotFound(key), p.path, calls \o calls)
       ELSE Outcome(fs, Io(r.err), p.path, calls \o calls)

\* delete that also removes the directory of the file when that leaves it
\* empty (the root is never removed)
delete_and_prune(fs, key) ==
    LET p == path_for(key) IN
    IF p.res.kind # "Ok" THEN Outcome(fs, p.res, <<>>, <<>>)
    ELSE
    LET r == fs_remove_file(fs, p.path)
        calls == <<Call("remove_file", p.path, r.node)>>
        dir == Front(r.node)
        empty == \A n \in r.fs.dirs \cup DOMAIN r.fs.files : ~(n # dir /\ IsPrefix(dir, n))
    IN IF r.err = "" THEN
            Outcome(IF empty /\ dir # RootNode /\ InRoot(dir)
                    THEN [r.fs EXCEPT !.dirs = @ \ {dir}] ELSE r.fs,
                    Ok(<<>>), p.path, calls)
       ELSE IF IsNotFound(r.err) THEN Outcome(fs, NotFound(key), p.path, calls)
       ELSE Outcome(fs, Io(r.err), p.path, calls)

\* delete whose NotFound carries the resolved path where the key belongs
delete_reports_path(fs, key) ==
    LET p == path_for(key) IN
    IF p.res.kind # "Ok" THEN Outcome(fs, p.res, <<>>, <<>>)
    ELSE
    LET r == fs_remove_file(fs, p.path)
        calls == <<Call("remove_file", p.path, r.node)>>
    IN IF r.err = "" THEN Outcome(r.fs, Ok(<<>>), p.path, calls)
       ELSE IF IsNotFound(r.err) THEN Outcome(fs, NotFound(p.path), p.path, calls)
       ELSE Outcome(fs, Io(r.err), p.path, calls)

delete(fs, key) ==
    LET p == path_for(key) IN
    IF p.res.kind # "Ok" THEN Outcome(fs, p.res, <<>>, <<>>)
    ELSE
    LET r == fs_remove_file(fs, p.path)
        calls == <<Call("remove_file", p.path, r.node)>>
    IN IF r.err = "" THEN Outcome(r.fs, Ok(<<>>), p.path, calls)
       ELSE IF IsNotFound(r.err) THEN Outcome(fs, NotFound(key), p.path, calls)
       ELSE Outcome(fs, Io(r.err), p.path, calls)

(***************************************************************************)
(* Operations running at the same time.  The engine holds no lock and each *)
(* tokio::fs call runs on the blocking pool, so the filesystem calls of     *)
(* different operations interleave, one system call at a time:              *)
(*   put     mkdir ... (create_dir_all), open with O_TRUNC, write           *)
(*   get     open, read until a read returns nothing                        *)
(*   delete  unlink                                                         *)
(* A task is an operation in flight: pc is the call it will issue next.     *)
(* An open file stays readable and writable after it is unlinked; such a    *)
(* handle is an orphan and carries the content of its file.                 *)
(***************************************************************************)
Pending == [kind |-> "Pending", msg |-> NoMsg, key |-> <<>>, bytes |-> <<>>, err |-> ""]

NoHandle == [open |-> FALSE, node |-> <<>>, orphan |-> FALSE, content |-> <<>>]

Handle(node) == [open |-> TRUE, node |-> node, orphan |-> FALSE, content |-> <<>>]

\* what lies above a path: "dir" when its parent directory exists, "file"
\* when a file stands where a directory of the path would be, else "none"
Above(fs, text) ==
    LET par == parent(text)
        w == Walk(fs, par.text)
    IN IF ~par.some THEN "dir"
       ELSE IF w.err = "ENOTDIR" THEN "file"
       ELSE IF w.err # "" THEN "none"
       ELSE Kind(fs, w.node)

\* what a key holds: the kind of the node at its path and its bytes, and
\* what lies above its path
Snapshot(fs, key) ==
    LET text == join(RootText, key)
        w == Walk(fs, text)
    IN
    IF w.err # "" THEN [kind |-> "none", bytes |-> <<>>, above |-> Above(fs, text)]
    ELSE IF Kind(fs, w.node) = "file"
    THEN [kind |-> "file", bytes |-> fs.files[w.node], above |-> Above(fs, text)]
    ELSE [kind |-> Kind(fs, w.node), bytes |-> <<>>, above |-> Above(fs, text)]

IdleTask ==
    [pc |-> "idle", op |-> "none", key |-> <<>>, data |-> <<>>, path |-> <<>>,
     stack |-> <<>>, handle |-> NoHandle, buf |-> <<>>, res |-> Pending,
     old |-> [kind |-> "none", bytes |-> <<>>, above |-> "none"]]

\* a frame of create_dir_all: the path, and where the frame stands
Frame(text, stage, err) == [path |-> text, stage |-> stage, err |-> err]

Finished(t, res) == [t EXCEPT !.pc = "done", !.res = res, !.stack = <<>>, !.handle = NoHandle]

\* the error of a failed read or unlink, as get and delete return it
Missing(t, err) == IF IsNotFound(err) THEN NotFound(t.key) ELSE Io(err)

\* an operation up to its first filesystem call: path_for, and for put the
\* parent of the path; old is what the key holds when the operation starts
Spawn(fs, call) ==
    LET p == path_for(call.key)
        t == [IdleTask EXCEPT !.op = call.op, !.key = call.key, !.data = call.data,
                              !.old = Snapshot(fs, call.key)]
    IN
    IF call.op = "none" THEN IdleTask
    ELSE IF p.res.kind # "Ok" THEN Finished(t, p.res)
    ELSE IF call.op = "put" THEN
        LET par == parent(p.path) IN
        IF par.some /\ Len(par.text) > 0
        THEN [t EXCEPT !.path = p.path, !.pc = "mkdir",
                       !.stack = <<Frame(par.text, "first", "")>>]
        ELSE [t EXCEPT !.path = p.path, !.pc = "create"]
    ELSE IF call.op = "get" THEN [t EXCEPT !.path = p.path, !.pc = "open"]
    ELSE [t EXCEPT !.path = p.path, !.pc = "unlink"]

Stepped(fs, task, unlinked) == [fs |-> fs, task |-> task, unlinked |-> unlinked]

\* the frame returns Ok to its caller: the frame below goes on, or the
\* directories are done and the file is opened next
Return(t) ==
    IF Len(t.stack) = 1 THEN [t EXCEPT !.stack = <<>>, !.pc = "create"]
    ELSE [t EXCEPT !.stack = Front(@)]

\* create_dir_all that reports a directory another task has made meanwhile
\* as an error
MkdirStepStrict(fs, t) ==
    LET f == t.stack[Len(t.stack)]
        m == SysMkdir(fs, f.path)
        par == parent(f.path)
    IN
    IF m.err = "" THEN Stepped(m.fs, Return(t), {})
    ELSE IF m.err = "ENOENT" /\ f.stage = "first" THEN
        IF ~par.some THEN Stepped(fs, Finished(t, Io("ENOENT")), {})
        ELSE IF Len(par.text) = 0
        THEN Stepped(fs, [t EXCEPT !.stack[Len(t.stack)] = Frame(f.path, "second", "")], {})
        ELSE Stepped(fs, [t EXCEPT !.stack = Append(Front(@), Frame(f.path, "second", ""))
                                                \o <<Frame(par.text, "first", "")>>], {})
    ELSE Stepped(fs, Finished(t, Io(m.err)), {})

\* one system call of create_dir_all: the mkdir of the top frame, or the
\* is_dir that follows a failed mkdir
MkdirStep(fs, t) ==
    LET f == t.stack[Len(t.stack)]
        m == SysMkdir(fs, f.path)
        par == parent(f.path)
    IN
    IF f.stage = "is_dir" THEN
        IF is_dir(fs, f.path) THEN Stepped(fs, Return(t), {})
        ELSE Stepped(fs, Finished(t, Io(f.err)), {})
    ELSE IF m.err = "" THEN Stepped(m.fs, Return(t), {})
    ELSE IF m.err = "ENOENT" /\ f.stage = "first" THEN
        IF ~par.some THEN Stepped(fs, Finished(t, Io("ENOENT")), {})
        ELSE IF Len(par.text) = 0
        THEN Stepped(fs, [t EXCEPT !.stack[Len(t.stack)] = Frame(f.path, "second", "")], {})
        ELSE Stepped(fs, [t EXCEPT !.stack = Append(Front(@), Frame(f.path, "second", ""))
                                                \o <<Frame(par.text, "first", "")>>], {})
    ELSE Stepped(fs, [t EXCEPT !.stack[Len(t.stack)] = Frame(f.path, "is_dir", m.err)], {})

\* File::create of fs::write; write_all of no bytes issues no write
CreateStep(fs, t) ==
    LET o == OpenCreateTruncate(fs, t.path) IN
    IF o.err # "" THEN Stepped(fs, Finished(t, Io(o.err)), {})
    ELSE IF Len(t.data) = 0 THEN Stepped(o.fs, Finished(t, Ok(<<>>)), {})
    ELSE Stepped(o.fs, [t EXCEPT !.pc = "write", !.handle = Handle(o.node)], {})

\* write_all of fs::write: the bytes go to the start of the open file
WriteStep(fs, t) ==
    IF t.handle.orphan THEN Stepped(fs, Finished(t, Ok(<<>>)), {})
    ELSE Stepped([fs EXCEPT !.files[t.handle.node] = WriteAll(@, t.data)],
                 Finished(t, Ok(<<>>)), {})

\* File::open of fs::read
OpenStep(fs, t) ==
    LET r == fs_read(fs, t.path) IN
    IF r.err # "" THEN Stepped(fs, Finished(t, Missing(t, r.err)), {})
    ELSE Stepped(fs, [t EXCEPT !.pc = "read", !.handle = Handle(r.node)], {})

\* read_to_end of fs::read: one read at the end of what was read so far; a
\* read that returns nothing ends it
ReadStep(fs, t) ==
    LET content == IF t.handle.orphan THEN t.handle.content ELSE fs.files[t.handle.node]
        chunk == SubSeq(content, Len(t.buf) + 1, Len(content))
    IN IF Len(chunk) = 0 THEN Stepped(fs, Finished(t, Ok(t.buf)), {})
       ELSE Stepped(fs, [t EXCEPT !.buf = @ \o chunk], {})

\* fs::remove_file
UnlinkStep(fs, t) ==
    LET r == fs_remove_file(fs, t.path) IN
    IF r.err # "" THEN Stepped(fs, Finished(t, Missing(t, r.err)), {})
    ELSE Stepped(r.fs, Finished(t, Ok(<<>>)), {r.node})

\* the next filesystem call of a task
TaskStep(fs, t) ==
    CASE t.pc = "mkdir" -> MkdirStep(fs, t)
      [] t.pc = "create" -> CreateStep(fs, t)
      [] t.pc = "write" -> WriteStep(fs, t)
      [] t.pc = "open" -> OpenStep(fs, t)
      [] t.pc = "read" -> ReadStep(fs, t)
      [] OTHER -> UnlinkStep(fs, t)

\* a task whose open file another task unlinks keeps the file as an orphan
Orphaned(fs, t, unlinked) ==
    IF t.handle.open /\ ~t.handle.orphan /\ t.handle.node \in unlinked
    THEN [t EXCEPT !.handle.orphan = TRUE, !.handle.content = fs.files[t.handle.node]]
    ELSE t

(***************************************************************************)
(* The HTTP facade (crates/filestorage/src/main.rs): the handlers of the    *)
(* route /objects/*key.  A handler takes the filesystem, the captured key   *)
(* and the request body; it returns the filesystem after the request, the   *)
(* response, and the calls it made on the storage engine, in order.         *)
(***************************************************************************)
\* http::StatusCode
OK == 200
CREATED == 201
NO_CONTENT == 204
BAD_REQUEST == 400
NOT_FOUND == 404
INTERNAL_SERVER_ERROR == 500

Digits == <<"0", "1", "2", "3", "4", "5", "6", "7", "8", "9">>

\* usize::to_string: the decimal digits of n
RECURSIVE to_string(_)
to_string(n) ==
    IF n < 10 THEN <<Digits[n + 1]>>
    ELSE Append(to_string(n \div 10), Digits[(n % 10) + 1])

\* the number a Content-Length value denotes (what the client parses)
RECURSIVE ParseDecimal(_)
ParseDecimal(text) ==
    IF Len(text) = 0 THEN 0
    ELSE 10 * ParseDecimal(Front(text))
         + (CHOOSE d \in 0..9 : Digits[d + 1] = text[Len(text)])

\* a response: status, the Content-Type and Content-Length headers the code
\* sets ("" and <<>> when it sets none), the body bytes, and for a JSON error
\* body the value of its "error" member
Response(status, ctype, clen, bytes, error) ==
    [status |-> status, content_type |-> ctype, content_length |-> clen,
     bytes |-> bytes, error |-> error]

\* Json(ErrorBody { error }) with a status
JsonError(status, error) == Response(status, "application/json", <<>>, <<>>, error)

\* enum ApiError
ApiBadRequest(msg) == [api |-> "BadRequest", msg |-> msg]
ApiNotFound(key) == [api |-> "NotFound", msg |-> [text |-> "", arg |-> key]]
ApiInternal(msg) == [api |-> "Internal", msg |-> msg]
ApiNone == [api |-> "Ok", msg |-> NoMsg]

\* From<StorageError> that reports every error but InvalidKey as NotFound
from_storage_error_absent(value) ==
    CASE value.kind = "InvalidKey" -> ApiBadRequest(value.msg)
      [] OTHER -> ApiNotFound(value.key)

\* impl From<StorageError> for ApiError
from_storage_error(value) ==
    CASE value.kind = "InvalidKey" -> ApiBadRequest(value.msg)
      [] value.kind = "NotFound" -> ApiNotFound(value.key)
      [] OTHER -> ApiInternal([text |-> "storage I/O error: {err}", arg |-> value.err])

\* impl IntoResponse for ApiError (the code writes the key between backquotes)
into_response(e) ==
    CASE e.api = "BadRequest" -> JsonError(BAD_REQUEST, e.msg)
      [] e.api = "NotFound" ->
            JsonError(NOT_FOUND, [text |-> "object {key} not found", arg |-> e.msg.arg])
      [] OTHER -> JsonError(INTERNAL_SERVER_ERROR, e.msg)

\* ensure_key_present that lets every key through
ensure_key_present_any(key) == ApiNone

ensure_key_present(key) ==
    IF Len(key) = 0
    THEN ApiBadRequest([text |-> "object key cannot be empty", arg |-> <<>>])
    ELSE ApiNone

EngineCall(op, key, data) == [op |-> op, key |-> key, data |-> data]

Handled(fs, resp, api, engine) == [fs |-> fs, resp |-> resp, api |-> api, engine |-> engine]

\* the `?` after the engine call and the Ok arm of a handler: an error of
\* the engine is converted and rendered, a success is answered with success
Answered(o, engine, success) ==
    IF o.res.kind # "Ok"
    THEN Handled(o.fs, into_response(from_storage_error(o.res)),
                 from_storage_error(o.res).api, engine)
    ELSE Handled(o.fs, success, "Ok", engine)

\* put_object that calls put a second time when the first call fails
put_object_retrying(fs, key, body) ==
    LET present == ensure_key_present(key)
        first == put(fs, key, body)
        call == EngineCall("put", key, body)
    IN
    IF present.api # "Ok" THEN Handled(fs, into_response(present), present.api, <<>>)
    ELSE IF first.res.kind = "Ok"
    THEN Answered(first, <<call>>, Response(CREATED, "", <<>>, <<>>, NoMsg))
    ELSE Answered(put(first.fs, key, body), <<call, call>>,
                  Response(CREATED, "", <<>>, <<>>, NoMsg))

put_object(fs, key, body) ==
    LET present == ensure_key_present(key) IN
    IF present.api # "Ok" THEN Handled(fs, into_response(present), present.api, <<>>)
    ELSE Answered(put(fs, key, body), <<EngineCall("put", key, body)>>,
                  Response(CREATED, "", <<>>, <<>>, NoMsg))

\* the response of get_object without a Content-Length header
ServedNoLength(o, engine) ==
    Answered(o, engine, Response(OK, "application/octet-stream", <<>>, o.res.bytes, NoMsg))

\* the response of get_object: the bytes, Content-Type and Content-Length
Served(o, engine) ==
    Answered(o, engine,
             Response(OK, "application/octet-stream",
                      to_string(Len(o.res.bytes)), o.res.bytes, NoMsg))

\* get_object that sets no Content-Length header
get_object_no_length(fs, key) ==
    LET present == ensure_key_present(key) IN
    IF present.api # "Ok" THEN Handled(fs, into_response(present), present.api, <<>>)
    ELSE ServedNoLength(get(fs, key), <<EngineCall("get", key, <<>>)>>)

get_object(fs, key) ==
    LET present == ensure_key_present(key) IN
    IF present.api # "Ok" THEN Handled(fs, into_response(present), present.api, <<>>)
    ELSE Served(get(fs, key), <<EngineCall("get", key, <<>>)>>)

delete_object(fs, key) ==
    LET present == ensure_key_present(key) IN
    IF present.api # "Ok" THEN Handled(fs, into_response(present), present.api, <<>>)
    ELSE Answered(delete(fs, key), <<EngineCall("delete", key, <<>>)>>,
                  Response(NO_CONTENT, "", <<>>, <<>>, NoMsg))

(***************************************************************************)
(* The process (crates/filestorage/src/main.rs): main and run.  run reads  *)
(* the settings, constructs the storage, binds the listener and serves;    *)
(* each `?` leaves run with the error, and main then exits with code 1.    *)
(***************************************************************************)
EXIT_FAILURE == 1

\* values of FILESTORAGE_ADDR; none is the variable not being set
DefaultAddr == "127.0.0.1:8080"
Addrs == {"", DefaultAddr, "0.0.0.0:80", "localhost"}

\* str::parse::<SocketAddr>: an IP address and a port
ParsesAsSocketAddr(text) == text \in {DefaultAddr, "0.0.0.0:80"}

\* values of FILESTORAGE_DATA_DIR: the root /r, and a path under the file /a
DataDirs == {RootText, <<"/", "a", "/", "r">>}

\* the process at the start of main
Starting == [pc |-> "from_env", root |-> <<>>, bound |-> FALSE, exit |-> <<>>]

\* the process while axum::serve runs on the root /r
Serving == [pc |-> "serving", root |-> RootText, bound |-> TRUE, exit |-> <<>>]

\* main: eprintln and std::process::exit(1)
exit_failure(p) == [p EXCEPT !.pc = "exited", !.exit = <<EXIT_FAILURE>>]

\* Settings::from_env()?
from_env(p, addr, dir) ==
    LET text == IF addr = "" THEN DefaultAddr ELSE addr IN
    IF ParsesAsSocketAddr(text) THEN [p EXCEPT !.pc = "new", !.root = dir]
    ELSE exit_failure(p)

\* run that goes on to bind when FileStorage::new has failed
storage_ready_unchecked(p, o) == [p EXCEPT !.pc = "bind"]

\* FileStorage::new(&settings.storage_root).await?
storage_ready(p, o) ==
    IF o.res.kind = "Ok" THEN [p EXCEPT !.pc = "bind"] ELSE exit_failure(p)

\* tokio::net::TcpListener::bind(settings.bind_address).await?
listener_bound(p, ok) ==
    IF ok THEN [p EXCEPT !.pc = "serve", !.bound = TRUE] ELSE exit_failure(p)

\* axum::serve(listener, router)
serve(p) == [p EXCEPT !.pc = "serving"]

(***************************************************************************)
(* State.  dirs and files are the filesystem.  last is the most recent     *)
(* operation on the engine and the kind of its result.  probe is the key   *)
(* text path_for was last applied to in SpecKey, with what it returned.    *)
(* tasks are the operations in flight in SpecConc.  server is the process  *)
(* of main.rs: where run() stands, its storage root, whether the listener  *)
(* is bound, and the exit code once it has exited.                         *)
(***************************************************************************)
Fs == [dirs |-> dirs, files |-> files]

\* the filesystem before the engine is constructed: "/" and the file /a
BareFs == [dirs |-> {<<>>}, files |-> [n \in {OutsideNode} |-> OutsideData]]

Last(op, o) == [op |-> op, res |-> o.res.kind]

Probe(key) == [key |-> key, res |-> path_for(key).res, path |-> path_for(key).path]

\* the keys the operations are called with: up to MaxSegs segments joined by "/"
Keys == {JoinSegs(s) : s \in UNION {[1..n -> Segs] : n \in 1..MaxSegs}}

\* the key texts path_for is applied to in SpecKey
Texts == UNION {[1..n -> Chars] : n \in 0..MaxKeyLen}

\* directories and files under the storage root
Nodes(fs) == {n \in fs.dirs \cup DOMAIN fs.files : InRoot(n) /\ n # RootNode}

Init ==
    LET o == new(BareFs, RootText) IN
    /\ dirs = o.fs.dirs
    /\ files = o.fs.files
    /\ last = Last("new", o)
    /\ probe = Probe(<<"a">>)
    /\ tasks = [p \in Procs |-> IdleTask]
    /\ server = Serving

Put(key, data) ==
    \E o \in {put(Fs, key, data)} :
    /\ Cardinality(Nodes(o.fs)) <= MaxNodes
    /\ dirs' = o.fs.dirs
    /\ files' = o.fs.files
    /\ last' = Last("put", o)
    /\ UNCHANGED <<probe, tasks, server>>

Get(key) ==
    \E o \in {get(Fs, key)} :
    /\ dirs' = o.fs.dirs
    /\ files' = o.fs.files
    /\ last' = Last("get", o)
    /\ UNCHANGED <<probe, tasks, server>>

Delete(key) ==
    \E o \in {delete(Fs, key)} :
    /\ dirs' = o.fs.dirs
    /\ files' = o.fs.files
    /\ last' = Last("delete", o)
    /\ UNCHANGED <<probe, tasks, server>>

Next ==
    \/ \E key \in Keys, data \in Data : Put(key, data)
    \/ \E key \in Keys : Get(key)
    \/ \E key \in Keys : Delete(key)

Spec == Init /\ [][Next]_vars

\* path_for applied to a key text of up to MaxKeyLen characters
Resolve(key) ==
    /\ probe' = Probe(key)
    /\ UNCHANGED <<dirs, files, last, tasks, server>>

NextKey == \E key \in Texts : Resolve(key)

SpecKey == Init /\ [][NextKey]_vars

\* the nested keys: one to MaxDepth plain names joined by "/"
NestedKeys == {JoinSegs(s) : s \in UNION {[1..n -> Names] : n \in 1..MaxDepth}}

PutNested(key, data) ==
    \E o \in {put(Fs, key, data)} :
    /\ Cardinality(Nodes(o.fs)) <= MaxTree
    /\ dirs' = o.fs.dirs
    /\ files' = o.fs.files
    /\ last' = Last("put", o)
    /\ UNCHANGED <<probe, tasks, server>>

\* put / get / delete with nested keys of plain names
NextNested ==
    \/ \E key \in NestedKeys, data \in Data : PutNested(key, data)
    \/ \E key \in NestedKeys : Get(key)
    \/ \E key \in NestedKeys : Delete(key)

SpecNested == Init /\ [][NextNested]_vars

\* the last request: its method and the ApiError (or Ok) it ended with
LastHttp(method, h) == [op |-> method, res |-> h.api]

HttpPut(key, body) ==
    \E h \in {put_object(Fs, key, body)} :
    /\ Cardinality(Nodes(h.fs)) <= MaxNodes
    /\ dirs' = h.fs.dirs
    /\ files' = h.fs.files
    /\ last' = LastHttp("PUT", h)
    /\ UNCHANGED <<probe, tasks, server>>

HttpGet(key) ==
    \E h \in {get_object(Fs, key)} :
    /\ dirs' = h.fs.dirs
    /\ files' = h.fs.files
    /\ last' = LastHttp("GET", h)
    /\ UNCHANGED <<probe, tasks, server>>

HttpDelete(key) ==
    \E h \in {delete_object(Fs, key)} :
    /\ dirs' = h.fs.dirs
    /\ files' = h.fs.files
    /\ last' = LastHttp("DELETE", h)
    /\ UNCHANGED <<probe, tasks, server>>

\* requests on /objects/*key, handled one after the other
NextHttp ==
    \/ \E key \in Keys, body \in Data : HttpPut(key, body)
    \/ \E key \in Keys : HttpGet(key)
    \/ \E key \in Keys : HttpDelete(key)

SpecHttp == Init /\ [][NextHttp]_vars

\* the calls a task may run in SpecConc
Calls ==
    [op : {"put"}, key : ConcKeys, data : ConcData]
        \cup [op : {"get", "delete"}, key : ConcKeys, data : {<<>>}]

NoCall == [op |-> "none", key |-> <<>>, data |-> <<>>]

Quiet == \A p \in Procs : tasks[p].pc = "idle"

AllDone == \A p \in Procs : tasks[p].pc \in {"idle", "done"}

\* with no operation in flight, task p starts a call and task q starts one
\* at the same time, or none
Launch(a, b) ==
    /\ Quiet
    /\ tasks' = [p \in Procs |-> IF p = "p" THEN Spawn(Fs, a) ELSE Spawn(Fs, b)]
    /\ UNCHANGED <<dirs, files, last, probe, server>>

\* task p issues its next filesystem call
Step(p) ==
    /\ tasks[p].pc \notin {"idle", "done"}
    /\ \E r \in {TaskStep(Fs, tasks[p])} :
        /\ dirs' = r.fs.dirs
        /\ files' = r.fs.files
        /\ tasks' = [q \in Procs |->
                        IF q = p THEN r.task ELSE Orphaned(Fs, tasks[q], r.unlinked)]
    /\ UNCHANGED <<last, probe, server>>

\* every operation has returned: the tasks are free for new calls
Settle ==
    /\ AllDone /\ ~Quiet
    /\ tasks' = [p \in Procs |-> IdleTask]
    /\ UNCHANGED <<dirs, files, last, probe, server>>

NextConc ==
    \/ \E a \in Calls, b \in Calls \cup {NoCall} : Launch(a, b)
    \/ \E p \in Procs : Step(p)
    \/ Settle

SpecConc == Init /\ [][NextConc]_vars

\* put while the environment may fail the open or the write
PutUnder(key, data, fault) ==
    \E o \in {put_under(Fs, key, data, fault)} :
    /\ dirs' = o.fs.dirs
    /\ files' = o.fs.files
    /\ last' = Last("put", o)
    /\ UNCHANGED <<probe, tasks, server>>

\* put / get / delete on a system that runs out of descriptors or of disk
NextFault ==
    \/ \E key \in ConcKeys, data \in Data \cup ConcData :
            \E fault \in Faults(data) : PutUnder(key, data, fault)
    \/ \E key \in ConcKeys : Get(key)
    \/ \E key \in ConcKeys : Delete(key)

SpecFault == Init /\ [][NextFault]_vars

\* a key text with one more segment, empty or ".", at any place: "c//a",
\* "c/./a", "c/a/", "c/a/.", "/c/a", "./c/a" for "c/a"
InsertAt(segs, i, seg) == SubSeq(segs, 1, i - 1) \o <<seg>> \o SubSeq(segs, i, Len(segs))

Variants(k) ==
    {k} \cup {JoinSegs(InsertAt(Split(k), i, seg)) :
                i \in 1..(Len(Split(k)) + 1), seg \in {<<>>, <<".">>}}

\* the textual forms of the keys "c", "c/a" and "c/b"
AliasKeys == UNION {Variants(k) : k \in ConcKeys}

\* put / get / delete with keys in several textual forms
NextAlias ==
    \/ \E key \in AliasKeys, data \in Data \cup ConcData : PutNested(key, data)
    \/ \E key \in AliasKeys : Get(key)
    \/ \E key \in AliasKeys : Delete(key)

SpecAlias == Init /\ [][NextAlias]_vars

\* the filesystems a process starts on: the root /r does not exist, or an
\* earlier process has left it behind with objects in it
StartFs ==
    LET made == new(BareFs, RootText).fs
        one == put(made, <<"c", "/", "a">>, <<1, 2>>).fs
    IN {BareFs, made, one, put(one, <<"c", "/", "b">>, <<3>>).fs}

InitStartup ==
    /\ \E fs \in StartFs : dirs = fs.dirs /\ files = fs.files
    /\ last = [op |-> "none", res |-> "Ok"]
    /\ probe = Probe(<<"a">>)
    /\ tasks = [p \in Procs |-> IdleTask]
    /\ server = Starting

FromEnv(addr, dir) ==
    /\ server.pc = "from_env"
    /\ server' = from_env(server, addr, dir)
    /\ UNCHANGED <<dirs, files, last, probe, tasks>>

NewStorage ==
    /\ server.pc = "new"
    /\ \E o \in {new(Fs, server.root)} :
        /\ dirs' = o.fs.dirs
        /\ files' = o.fs.files
        /\ last' = Last("new", o)
        /\ server' = storage_ready(server, o)
    /\ UNCHANGED <<probe, tasks>>

\* the bind succeeds, or fails (the address is in use, or may not be bound)
Bind(ok) ==
    /\ server.pc = "bind"
    /\ server' = listener_bound(server, ok)
    /\ UNCHANGED <<dirs, files, last, probe, tasks>>

Serve ==
    /\ server.pc = "serve"
    /\ server' = serve(server)
    /\ UNCHANGED <<dirs, files, last, probe, tasks>>

\* a request is handled while axum::serve runs
Request ==
    /\ server.pc = "serving"
    /\ \/ \E key \in ConcKeys \cup {<<>>}, body \in ConcData : HttpPut(key, body)
       \/ \E key \in ConcKeys \cup {<<>>} : HttpGet(key)
       \/ \E key \in ConcKeys \cup {<<>>} : HttpDelete(key)

NextStartup ==
    \/ \E addr \in Addrs, dir \in DataDirs : FromEnv(addr, dir)
    \/ NewStorage
    \/ \E ok \in BOOLEAN : Bind(ok)
    \/ Serve
    \/ Request

SpecStartup == InitStartup /\ [][NextStartup]_vars

(***************************************************************************)
(* Vocabulary of the claims                                                *)
(***************************************************************************)
ValidKey(k) == validate_key(k).kind = "Ok"

RECURSIVE CompNames(_)
CompNames(cs) == IF Len(cs) = 0 THEN <<>> ELSE <<CompText(cs[1])>> \o CompNames(Tail(cs))

\* the node under the root that the segments of a valid key name
ObjectNode(k) == RootNode \o CompNames(components(k))

Stored(k) == Kind(Fs, ObjectNode(k)) = "file"

FreshRoot == Nodes(Fs) = {}

HasSeg(k, seg) == \E i \in 1..Len(Split(k)) : Split(k)[i] = seg

CallsInRoot(o) == \A i \in 1..Len(o.calls) : InRoot(o.calls[i].node)

EmptyKeyError == InvalidKey("key cannot be empty", <<>>)

(***************************************************************************)
(* C1  Round trip                                                          *)
(***************************************************************************)
\* C1 as stated: in every reachable store state, for every valid key k and
\* every d, put(k, d) followed at once by get(k) returns exactly d.
C1_RoundTripEveryValidKey ==
    \A k \in Keys, d \in Data :
        ValidKey(k) => get(put(Fs, k, d).fs, k).res = Ok(d)

\* C1 amended: in every reachable store state, for every key k and every d
\* (the empty sequence included), when put(k, d) succeeds, get(k) right after
\* it returns exactly d.
C1_RoundTrip ==
    \A k \in Keys, d \in Data :
        LET o == put(Fs, k, d) IN
        o.res.kind = "Ok" => get(o.fs, k).res = Ok(d)

\* a put has just succeeded on a root holding other nodes, and an empty object
\* it wrote is read back empty
C1_Witness ==
    /\ last = [op |-> "put", res |-> "Ok"]
    /\ Cardinality(Nodes(Fs)) > 1
    /\ \E k \in Keys : Stored(k) /\ files[ObjectNode(k)] = <<>> /\ get(Fs, k).res = Ok(<<>>)

(***************************************************************************)
(* C2  Delete removes                                                      *)
(***************************************************************************)
SamePath(k, k2) == ValidKey(k) /\ ValidKey(k2) /\ ObjectNode(k) = ObjectNode(k2)

\* C2 as stated: after a successful put(k, d) and a successful delete(k), a
\* later get(k) fails with NotFound(k), the key as passed, as long as no put to
\* k came in between: right after the delete, and after one put to a key that
\* resolves to another path.
C2_DeleteRemoves ==
    \A k \in Keys, d \in Data :
        LET p == put(Fs, k, d)
            x == delete(p.fs, k)
        IN (p.res.kind = "Ok" /\ x.res.kind = "Ok") =>
            /\ get(x.fs, k).res = NotFound(k)
            /\ \A k2 \in Keys, d2 \in Data :
                   ~SamePath(k, k2) => get(put(x.fs, k2, d2).fs, k).res = NotFound(k)

(***************************************************************************)
(* C3  Overwrite                                                           *)
(***************************************************************************)
\* C3 as stated: for every valid key k and all d1, d2, put(k, d1), put(k, d2),
\* get(k) returns exactly d2.
C3_OverwriteEveryValidKey ==
    \A k \in Keys, d1 \in Data, d2 \in Data :
        ValidKey(k) => get(put(put(Fs, k, d1).fs, k, d2).fs, k).res = Ok(d2)

\* C3 amended: for every key k and all d1, d2, when put(k, d1) succeeds, the
\* put(k, d2) after it succeeds too and get(k) then returns exactly d2, nothing
\* of d1 (also when d2 is shorter than d1); a successful put leaves exactly its
\* data as the content of the key.
C3_Overwrite ==
    \A k \in Keys, d1 \in Data, d2 \in Data :
        LET p1 == put(Fs, k, d1)
            p2 == put(p1.fs, k, d2)
        IN p1.res.kind = "Ok" =>
            /\ p2.res.kind = "Ok"
            /\ get(p2.fs, k).res = Ok(d2)
            /\ p2.fs.files[ObjectNode(k)] = d2

\* a put has just succeeded, a two-byte object is stored under a directory,
\* and putting two bytes and then nothing under its key reads back as nothing
C3_Witness ==
    /\ last = [op |-> "put", res |-> "Ok"]
    /\ \E k \in Keys :
        /\ Stored(k) /\ Len(ObjectNode(k)) > 2 /\ files[ObjectNode(k)] = <<1, 2>>
        /\ get(put(put(Fs, k, <<1, 2>>).fs, k, <<>>).fs, k).res = Ok(<<>>)

(***************************************************************************)
(* C4  Containment in the storage root                                     *)
(***************************************************************************)
TraversalKey(k) == is_absolute(k) \/ HasSeg(k, <<".", ".">>)

OutsideUntouched ==
    /\ \A n \in dirs \cup DOMAIN files : ~InRoot(n) => n \in {<<>>, OutsideNode}
    /\ <<>> \in dirs
    /\ OutsideNode \in DOMAIN files
    /\ files[OutsideNode] = OutsideData

\* C4: whatever put / get / delete calls were made, nothing outside the storage
\* root has been created, overwritten or removed; every key that is absolute
\* or has a ".." segment is rejected with InvalidKey; and no call of any
\* operation reads or writes a node outside the root.
C4_Containment ==
    /\ OutsideUntouched
    /\ \A k \in Keys :
        /\ TraversalKey(k) =>
            /\ get(Fs, k).res.kind = "InvalidKey"
            /\ delete(Fs, k).res.kind = "InvalidKey"
            /\ \A d \in Data : put(Fs, k, d).res.kind = "InvalidKey"
        /\ CallsInRoot(get(Fs, k))
        /\ CallsInRoot(delete(Fs, k))
        /\ \A d \in Data : CallsInRoot(put(Fs, k, d))

\* a put was just rejected as invalid on a root that holds an object named
\* as the outside file is, and the key "../a" aimed at the outside file is
\* rejected
C4_Witness ==
    /\ last = [op |-> "put", res |-> "InvalidKey"]
    /\ Stored(<<"a">>)
    /\ put(Fs, <<".", ".", "/", "a">>, <<1, 2>>).res.kind = "InvalidKey"
    /\ files[OutsideNode] = OutsideData

(***************************************************************************)
(* C5  Missing object on a fresh root                                      *)
(***************************************************************************)
\* C5: on a root with nothing under it, for every valid key k, get(k) and
\* delete(k) fail with NotFound(k), the key as passed, and change nothing.
C5_MissingOnFreshRoot ==
    FreshRoot =>
        \A k \in Keys :
            ValidKey(k) =>
                /\ get(Fs, k) = Outcome(Fs, NotFound(k), get(Fs, k).path, get(Fs, k).calls)
                /\ delete(Fs, k) = Outcome(Fs, NotFound(k), delete(Fs, k).path, delete(Fs, k).calls)

\* a delete has just failed with NotFound on a root with nothing under it
C5_Witness ==
    /\ FreshRoot
    /\ last = [op |-> "delete", res |-> "NotFound"]
    /\ delete(Fs, <<"a", "/", "b">>).res = NotFound(<<"a", "/", "b">>)

(***************************************************************************)
(* C6  NotFound in every reachable state                                   *)
(***************************************************************************)
\* C6 as stated: in every reachable store state, for every valid key k with
\* no file at its resolved path (also when an ancestor of k is a stored object
\* and when k names a directory), get(k) and delete(k) fail with NotFound(k).
C6_MissingIsNotFound ==
    \A k \in Keys :
        (ValidKey(k) /\ ~Stored(k)) =>
            /\ get(Fs, k).res = NotFound(k)
            /\ delete(Fs, k).res = NotFound(k)

(***************************************************************************)
(* C7  Empty key                                                           *)
(***************************************************************************)
\* C7: in every store state, put("", d) for every d, get("") and delete("")
\* fail with InvalidKey("key cannot be empty").
C7_EmptyKey ==
    /\ get(Fs, <<>>).res = EmptyKeyError
    /\ delete(Fs, <<>>).res = EmptyKeyError
    /\ \A d \in Data : put(Fs, <<>>, d).res = EmptyKeyError

\* a get was just rejected as invalid on a root holding objects, where the
\* empty key is rejected as empty
C7_Witness ==
    /\ last = [op |-> "get", res |-> "InvalidKey"]
    /\ Nodes(Fs) # {}
    /\ get(Fs, <<>>).res = EmptyKeyError

(***************************************************************************)
(* C8  Segment validation (checked on path_for in SpecKey)                 *)
(***************************************************************************)
Relative(k) == Len(k) > 0 /\ k[1] # "/"

DoubledSeparator(k) == \E i \in 1..(Len(k) - 1) : k[i] = "/" /\ k[i + 1] = "/"

UnsupportedError(k) == InvalidKey("{key} contains unsupported segments", k)

\* C8 as stated, the message left aside: a non-empty, non-absolute key is
\* rejected with InvalidKey when it has a ".." segment, a "." segment (leading
\* or interior) or an empty segment from doubled separators, and is accepted
\* only when it has none of them.
C8_EverySpecialSegmentRejected ==
    Relative(probe.key) =>
        (probe.res.kind = "InvalidKey"
            <=> (\/ HasSeg(probe.key, <<".", ".">>)
                 \/ HasSeg(probe.key, <<".">>)
                 \/ DoubledSeparator(probe.key)))

\* C8 amended: a non-empty, non-absolute key is rejected, with
\* InvalidKey("`<key>` contains unsupported segments"), exactly when it has a
\* ".." segment anywhere or starts with a "." segment; every other such key is
\* accepted: interior and trailing "." segments, empty segments from doubled
\* separators and a trailing separator are normalised away.
C8_SegmentValidation ==
    Relative(probe.key) =>
        IF HasSeg(probe.key, <<".", ".">>) \/ Split(probe.key)[1] = <<".">>
        THEN probe.res = UnsupportedError(probe.key)
        ELSE probe.res = Ok(<<>>)

\* path_for has accepted "a/./a", a key with an interior "." segment
C8_Witness ==
    /\ probe.key = <<"a", "/", ".", "/", "a">>
    /\ probe.res.kind = "Ok"

(***************************************************************************)
(* C9  Validation order and reason (checked on path_for in SpecKey)        *)
(***************************************************************************)
AbsoluteError(k) == InvalidKey("absolute paths are not allowed (got {key})", k)

PlainSegs(k) ==
    SelectSeq(Split(k), LAMBDA seg : seg # <<>> /\ seg # <<".">> /\ seg # <<".", ".">>)

\* the checks run in the order empty, absolute, segments, and an accepted key
\* resolves to the root joined with its segments; absErr is the error an
\* absolute key is rejected with
OrderAndResolution(absErr) ==
    /\ probe.key = <<>> => probe.res = EmptyKeyError
    /\ (Len(probe.key) > 0 /\ probe.key[1] = "/") => probe.res = absErr
    /\ probe.res.kind = "InvalidKey" =>
           (probe.res.msg.text = "{key} contains unsupported segments" => Relative(probe.key))
    /\ probe.res.kind = "Ok" =>
           /\ probe.path = RootText \o <<"/">> \o probe.key
           /\ CompNames(components(probe.path)) = <<<<>>, <<"r">>>> \o PlainSegs(probe.key)

\* C9 as stated: the order is empty, absolute, segments; an absolute key is
\* rejected with InvalidKey("absolute paths are not allowed"), also when it has
\* ".." or "." segments; an accepted key resolves to root joined with its
\* segments.
C9_OrderWithBareReason ==
    OrderAndResolution(InvalidKey("absolute paths are not allowed", <<>>))

\* C9 amended: the same, with the reason the code reports for an absolute key:
\* InvalidKey("absolute paths are not allowed (got `<key>`)"), which names the
\* key.
C9_ValidationOrder == OrderAndResolution(AbsoluteError(probe.key))

\* path_for has rejected "/../." as absolute, though it has ".." and "."
\* segments
C9_Witness ==
    /\ probe.key = <<"/", ".", ".", "/", ".">>
    /\ probe.res = AbsoluteError(probe.key)

(***************************************************************************)
(* C10  An invalid key has no effect                                       *)
(***************************************************************************)
NoEffect(o) == o.res.kind = "InvalidKey" => (o.fs = Fs /\ o.calls = <<>>)

\* C10: for put, get and delete, when the result is InvalidKey the operation
\* issued no filesystem call and the filesystem is as before the call.
C10_InvalidKeyNoEffect ==
    \A k \in Keys :
        /\ NoEffect(get(Fs, k))
        /\ NoEffect(delete(Fs, k))
        /\ \A d \in Data : NoEffect(put(Fs, k, d))

\* a delete was just rejected as invalid on a root holding a directory and an
\* object, and a put whose key goes through that directory and back is rejected
C10_Witness ==
    /\ last = [op |-> "delete", res |-> "InvalidKey"]
    /\ Kind(Fs, Append(RootNode, <<"b">>)) = "dir"
    /\ Stored(<<"b", "/", "a">>)
    /\ put(Fs, <<"b", "/", ".", ".">>, <<1, 2>>).res.kind = "InvalidKey"

(***************************************************************************)
(* C11  Nested keys create directories (checked in SpecNested)             *)
(***************************************************************************)
\* the nodes of the proper ancestor paths of a valid key, below the root
AncestorNodes(k) ==
    {SubSeq(ObjectNode(k), 1, n) : n \in (Len(RootNode) + 1)..(Len(ObjectNode(k)) - 1)}

MultiSegment(k) == Len(ObjectNode(k)) > Len(RootNode) + 1

NoAncestorStored(fs, k) == \A n \in AncestorNodes(k) : Kind(fs, n) # "file"

\* put(k, d) succeeds, get(k) then returns d, and every ancestor directory
\* of k exists
NestedPutWorks(k, d) ==
    LET o == put(Fs, k, d) IN
    /\ o.res = Ok(<<>>)
    /\ get(o.fs, k).res = Ok(d)
    /\ \A n \in AncestorNodes(k) : Kind(o.fs, n) = "dir"

\* C11 as stated: in every reachable store state, for every multi-segment key
\* of plain names none of whose ancestor paths is a stored object, put
\* succeeds, a get right after returns the same data, and every intermediate
\* directory exists afterwards.
C11_NestedPutAnyRoot ==
    \A k \in NestedKeys, d \in Data :
        (MultiSegment(k) /\ NoAncestorStored(Fs, k)) => NestedPutWorks(k, d)

\* C11 amended: the same for every such key that does not itself name an
\* existing directory.
C11_NestedPut ==
    \A k \in NestedKeys, d \in Data :
        (MultiSegment(k) /\ NoAncestorStored(Fs, k) /\ Kind(Fs, ObjectNode(k)) # "dir")
            => NestedPutWorks(k, d)

\* a put of "a/b/a" has just succeeded and made both its directories, and a
\* put of "b/a/b", none of whose directories exists yet, makes them as well
C11_Witness ==
    /\ last = [op |-> "put", res |-> "Ok"]
    /\ Nodes(Fs) = {RootNode \o <<<<"a">>>>, RootNode \o <<<<"a">>, <<"b">>>>,
                    RootNode \o <<<<"a">>, <<"b">>, <<"a">>>>}
    /\ Stored(<<"a", "/", "b", "/", "a">>)
    /\ Kind(Fs, RootNode \o <<<<"b">>>>) = "none"
    /\ NestedPutWorks(<<"b", "/", "a", "/", "b">>, <<1, 2>>)

(***************************************************************************)
(* C12  HTTP lifecycle (checked in SpecHttp)                               *)
(***************************************************************************)
NotFoundBody(k) == [text |-> "object {key} not found", arg |-> k]

\* GET returns 200 with body exactly X, Content-Type application/octet-stream
\* and a Content-Length that denotes the byte count of X; DELETE then returns
\* 204; a further GET returns 404 with a JSON error body that names the key
AfterCreated(fs, k, X) ==
    LET g == get_object(fs, k)
        x == delete_object(g.fs, k)
        g2 == get_object(x.fs, k)
    IN /\ g.resp.status = OK
       /\ g.resp.bytes = X
       /\ g.resp.content_type = "application/octet-stream"
       /\ Len(g.resp.content_length) > 0
       /\ ParseDecimal(g.resp.content_length) = Len(X)
       /\ x.resp.status = NO_CONTENT
       /\ g2.resp = JsonError(NOT_FOUND, NotFoundBody(k))

\* C12 as stated: for every non-empty valid key and body X, PUT returns 201,
\* then GET, DELETE and GET answer as above.
C12_LifecycleEveryValidKey ==
    \A k \in Keys, X \in Data :
        (Len(k) > 0 /\ ValidKey(k)) =>
            LET p == put_object(Fs, k, X) IN
            p.resp.status = CREATED /\ AfterCreated(p.fs, k, X)

\* C12 amended: for every key and body X, when PUT returns 201, then GET,
\* DELETE and GET answer as above; PUT answers 201 with an empty body exactly
\* when the put of the engine succeeds.
C12_Lifecycle ==
    \A k \in Keys, X \in Data :
        LET p == put_object(Fs, k, X) IN
        /\ p.resp.status = CREATED => AfterCreated(p.fs, k, X)
        /\ p.resp.status = CREATED <=> (Len(k) > 0 /\ put(Fs, k, X).res.kind = "Ok")
        /\ p.resp.status = CREATED => p.resp = Response(CREATED, "", <<>>, <<>>, NoMsg)

\* a PUT has just returned 201 for a two-byte body under a directory, and GET
\* of that key answers 200 with Content-Length "2"
C12_Witness ==
    /\ last = [op |-> "PUT", res |-> "Ok"]
    /\ \E k \in Keys :
        /\ Stored(k) /\ Len(ObjectNode(k)) > 2 /\ files[ObjectNode(k)] = <<1, 2>>
        /\ get_object(Fs, k).resp.content_length = <<"2">>
        /\ AfterCreated(Fs, k, <<1, 2>>)

(***************************************************************************)
(* C13  HTTP error mapping (checked in SpecHttp)                           *)
(***************************************************************************)
IoBody(err) == [text |-> "storage I/O error: {err}", arg |-> err]

\* the response the engine result e must be answered with; success is one of
\* the 2xx responses
MappedFrom(e, resp) ==
    CASE e.kind = "InvalidKey" -> resp = JsonError(BAD_REQUEST, e.msg)
      [] e.kind = "NotFound" -> resp = JsonError(NOT_FOUND, NotFoundBody(e.key))
      [] e.kind = "Io" -> resp = JsonError(INTERNAL_SERVER_ERROR, IoBody(e.err))
      [] OTHER -> resp.status \in {OK, CREATED, NO_CONTENT}

\* C13: for PUT, GET and DELETE with a non-empty key, the response is the one
\* the result of the engine call maps to: InvalidKey(msg) gives 400 with error
\* msg, NotFound(key) gives 404 with an error naming the key, an I/O error
\* gives 500 with error "storage I/O error: <detail>", and success gives a 2xx
\* status; so no error gives 2xx and no success gives 4xx or 5xx.
C13_ErrorMapping ==
    \A k \in Keys \ {<<>>} :
        /\ MappedFrom(get(Fs, k).res, get_object(Fs, k).resp)
        /\ MappedFrom(delete(Fs, k).res, delete_object(Fs, k).resp)
        /\ \A X \in Data : MappedFrom(put(Fs, k, X).res, put_object(Fs, k, X).resp)

\* a DELETE has just been answered 500, and in this state GET is answered
\* 400 for "../a", 404 for a missing key and 500 for a key that names a
\* directory
C13_Witness ==
    /\ last = [op |-> "DELETE", res |-> "Internal"]
    /\ get_object(Fs, <<".", ".", "/", "a">>).resp.status = BAD_REQUEST
    /\ \E k \in Keys : get_object(Fs, k).resp = JsonError(NOT_FOUND, NotFoundBody(k))
    /\ \E k \in Keys :
        /\ Kind(Fs, ObjectNode(k)) = "dir"
        /\ get_object(Fs, k).resp = JsonError(INTERNAL_SERVER_ERROR, IoBody("EISDIR"))

(***************************************************************************)
(* C14  Last write wins (checked in SpecConc)                              *)
(***************************************************************************)
\* both tasks ran op on the same key at the same time and have returned
BothRan(op1, op2) ==
    /\ AllDone
    /\ tasks["p"].op = op1 /\ tasks["q"].op = op2
    /\ tasks["p"].key = tasks["q"].key

\* C14 as stated, for two puts that both report success: after two puts of d1
\* and d2 to the same key have run at the same time and returned, get returns
\* exactly d1 or exactly d2: no mixture of the two, no empty object, no
\* NotFound.
C14_LastWriteWins ==
    (BothRan("put", "put") /\ tasks["p"].res.kind = "Ok" /\ tasks["q"].res.kind = "Ok") =>
        get(Fs, tasks["p"].key).res \in {Ok(tasks["p"].data), Ok(tasks["q"].data)}

(***************************************************************************)
(* C15  Atomic whole-object visibility (checked in SpecConc)               *)
(***************************************************************************)
\* C15 as stated: a get that ran at the same time as a put(k, dNew) or a
\* delete(k) on a key that held dOld when they started has returned exactly
\* dOld, exactly dNew, or, beside a delete only, NotFound(k).
C15_WholeObjectVisible ==
    \A g \in Procs, w \in Procs :
        (/\ AllDone
         /\ tasks[g].op = "get" /\ tasks[w].op \in {"put", "delete"}
         /\ tasks[g].key = tasks[w].key
         /\ tasks[g].old.kind = "file")
        => \/ tasks[g].res = Ok(tasks[g].old.bytes)
           \/ tasks[w].op = "put" /\ tasks[g].res = Ok(tasks[w].data)
           \/ tasks[w].op = "delete" /\ tasks[g].res = NotFound(tasks[g].key)

(***************************************************************************)
(* C16  Independent keys under concurrency (checked in SpecConc)           *)
(***************************************************************************)
\* both puts returned Ok, and get of each key returns the data of its own put
BothPutsStored ==
    \A p \in Procs :
        /\ tasks[p].res = Ok(<<>>)
        /\ get(Fs, tasks[p].key).res = Ok(tasks[p].data)

TwoPuts ==
    /\ AllDone
    /\ \A p \in Procs : tasks[p].op = "put"
    /\ tasks["p"].key # tasks["q"].key

\* neither path is the other or lies under the other
Apart(k1, k2) ==
    /\ ~IsPrefix(ObjectNode(k1), ObjectNode(k2))
    /\ ~IsPrefix(ObjectNode(k2), ObjectNode(k1))

\* C16 as stated: two puts to distinct valid keys that ran at the same time
\* have both succeeded, and get of each key returns the data of its own put.
C16_DistinctKeysAllSucceed == TwoPuts => BothPutsStored

\* C16 amended: the same for two keys whose paths are apart (neither lies
\* under the other), when at the start no file stood where a directory of
\* either path would be and neither key named a directory; the directories
\* the keys share need not exist at the start, and both tasks making the same
\* directory is no error.
C16_IndependentKeys ==
    (/\ TwoPuts
     /\ Apart(tasks["p"].key, tasks["q"].key)
     /\ \A p \in Procs : tasks[p].old.above # "file" /\ tasks[p].old.kind # "dir")
    => BothPutsStored

\* puts of "c/a" and "c/b" that started when the directory c did not exist
\* have both returned Ok
C16_Witness ==
    /\ TwoPuts
    /\ tasks["p"].key = <<"c", "/", "a">> /\ tasks["q"].key = <<"c", "/", "b">>
    /\ \A p \in Procs : tasks[p].old.above = "none" /\ tasks[p].res = Ok(<<>>)
    /\ Stored(<<"c", "/", "a">>) /\ Stored(<<"c", "/", "b">>)

(***************************************************************************)
(* C17  No directory pruning (checked in SpecNested)                       *)
(***************************************************************************)
\* a successful delete(k) removes the file of k and nothing else: every other
\* file and every directory, the ancestors of k among them, is as before
DeleteRemovesOnlyFile ==
    \A k \in NestedKeys :
        LET o == delete(Fs, k) IN
        o.res.kind = "Ok" =>
            /\ Stored(k)
            /\ o.fs.dirs = dirs
            /\ o.fs.files = [n \in DOMAIN files \ {ObjectNode(k)} |-> files[n]]
            /\ \A n \in AncestorNodes(k) : Kind(o.fs, n) = "dir"

\* C17: a successful delete removes exactly the file of its key and leaves
\* every ancestor directory in place, and no step of any operation removes a
\* directory: the set of directories never shrinks.
C17_NoPruning == []DeleteRemovesOnlyFile /\ [][dirs \subseteq dirs']_vars

\* a delete has just succeeded and left the directories a and a/b behind
\* with nothing in them
C17_Witness ==
    /\ last = [op |-> "delete", res |-> "Ok"]
    /\ Nodes(Fs) = {RootNode \o <<<<"a">>>>, RootNode \o <<<<"a">>, <<"b">>>>}
    /\ Nodes(Fs) \subseteq dirs

(***************************************************************************)
(* C18  Empty key at the HTTP layer (checked in SpecHttp)                  *)
(***************************************************************************)
\* the handler answered 400 with the message of the facade, called no
\* operation of the engine and left the store as it was
RejectedByFacade(h) ==
    /\ h.resp = JsonError(BAD_REQUEST, [text |-> "object key cannot be empty", arg |-> <<>>])
    /\ h.resp.status = BAD_REQUEST
    /\ h.engine = <<>>
    /\ h.fs = Fs

\* C18: in every state of the store, a PUT (with any body), a GET and a
\* DELETE whose captured key is the empty string are answered 400 by the
\* facade itself, and the put, get or delete of the engine is not called.
C18_EmptyKeyRejectedByFacade ==
    /\ \A X \in Data : RejectedByFacade(put_object(Fs, <<>>, X))
    /\ RejectedByFacade(get_object(Fs, <<>>))
    /\ RejectedByFacade(delete_object(Fs, <<>>))

\* a DELETE has just been answered 400 on a store that holds an object, and
\* the DELETE with the empty key is answered so without an engine call, while
\* the engine itself would have refused the empty key with its own message
C18_Witness ==
    /\ last = [op |-> "DELETE", res |-> "BadRequest"]
    /\ DOMAIN files # {}
    /\ RejectedByFacade(delete_object(Fs, <<>>))
    /\ delete(Fs, <<>>).res = EmptyKeyError

(***************************************************************************)
(* C19  get is non-destructive (checked in SpecConc)                       *)
(***************************************************************************)
\* get(k), whatever it returns, leaves the directories and files as they
\* are, and a get after it returns the same: for the keys in use in every
\* state, also between the filesystem calls of other operations, and for
\* every key of Keys whenever no operation is in flight
GetLeavesStore ==
    \A k \in (IF Quiet THEN Keys \cup ConcKeys ELSE ConcKeys) :
        LET g == get(Fs, k)
            g2 == get(g.fs, k)
        IN g.fs = Fs /\ g2.fs = Fs /\ g2.res = g.res

\* the calls now started or returned are gets only
ReadersOnly == \A p \in Procs : tasks[p].op \in {"get", "none"}

\* gets that ran at the same time with no writer have each returned what a
\* get returns now, which for a key that held an object at the start is the
\* whole of its bytes, and each key holds what it held at the start
ReadersAgree ==
    (AllDone /\ ReadersOnly) =>
        \A p \in Procs :
            tasks[p].op = "get" =>
                /\ tasks[p].res = get(Fs, tasks[p].key).res
                /\ Snapshot(Fs, tasks[p].key) = tasks[p].old
                /\ tasks[p].old.kind = "file" => tasks[p].res = Ok(tasks[p].old.bytes)

\* C19: get(k), whether it succeeds or fails, changes no file and no
\* directory; a second get returns the same as the first; no filesystem call
\* of gets running at the same time changes the store, and such gets all
\* return the whole content the key held when they started.
C19_GetNonDestructive ==
    /\ [](GetLeavesStore /\ ReadersAgree)
    /\ [][ReadersOnly => UNCHANGED <<dirs, files>>]_vars

\* two gets of "c/a", which held the bytes 1, 2, ran at the same time and
\* both returned them, and the object is still there
C19_Witness ==
    /\ BothRan("get", "get")
    /\ tasks["p"].key = <<"c", "/", "a">>
    /\ \A p \in Procs : tasks[p].old.kind = "file" /\ tasks[p].res = Ok(<<1, 2>>)
    /\ Stored(<<"c", "/", "a">>) /\ files[ObjectNode(<<"c", "/", "a">>)] = <<1, 2>>

(***************************************************************************)
(* C20  Operations touch only their own key (checked in Spec)              *)
(***************************************************************************)
\* the files that are in fs2 and not in the store now, or the reverse, or in
\* both with different bytes
ChangedFiles(fs2) ==
    {n \in DOMAIN files \cup DOMAIN fs2.files :
        \/ n \notin DOMAIN files
        \/ n \notin DOMAIN fs2.files
        \/ files[n] # fs2.files[n]}

\* every file but the one at node own is in fs2 exactly when it is in the
\* store now, with the same bytes
OtherFilesKept(fs2, own) == ChangedFiles(fs2) \subseteq {own}

ValidKeys == {k \in Keys : ValidKey(k)}

\* the path each valid key resolves to
NodeOf == [k \in ValidKeys |-> ObjectNode(k)]

\* every key whose object is not in fs2 as it is in the store now (there or
\* not there, and its content) resolves to the path of k
OtherObjectsKept(fs2, k) ==
    \A n \in ChangedFiles(fs2) :
        \A k2 \in ValidKeys : NodeOf[k2] = n => SamePath(k, k2)

\* C20: put(k, d), whether it succeeds or fails, leaves every file other than
\* the file of k as it is, removes no directory and creates none but
\* ancestor directories of k; delete(k), whether it succeeds or fails, leaves
\* every directory and every file other than the file of k as it is; so the
\* object of every key that resolves to another path exists before exactly
\* when it exists after, with the same content. A call with an invalid key
\* changes nothing.
C20_OnlyOwnKey ==
    \A k \in Keys :
        LET x == delete(Fs, k) IN
        /\ \A d \in Data :
            LET o == put(Fs, k, d) IN
            /\ OtherFilesKept(o.fs, ObjectNode(k))
            /\ OtherObjectsKept(o.fs, k)
            /\ dirs \subseteq o.fs.dirs
            /\ o.fs.dirs \ dirs \subseteq AncestorNodes(k)
            /\ ~ValidKey(k) => o.fs = Fs
        /\ OtherFilesKept(x.fs, ObjectNode(k))
        /\ OtherObjectsKept(x.fs, k)
        /\ x.fs.dirs = dirs
        /\ ~ValidKey(k) => x.fs = Fs

\* a put has just succeeded and two keys of different paths hold objects of
\* different content; deleting one leaves the other in place
C20_Witness ==
    /\ last = [op |-> "put", res |-> "Ok"]
    /\ \E k \in Keys, k2 \in Keys :
        /\ ValidKey(k) /\ ValidKey(k2) /\ ~SamePath(k, k2)
        /\ Stored(k) /\ Stored(k2)
        /\ files[ObjectNode(k)] # files[ObjectNode(k2)]
        /\ Kind(delete(Fs, k).fs, ObjectNode(k2)) = "file"
        /\ Kind(delete(Fs, k).fs, ObjectNode(k)) = "none"

(***************************************************************************)
(* C21  The facade is a pure translation of the engine (checked in         *)
(* SpecHttp)                                                               *)
(***************************************************************************)
\* the response to a request of the method, as a function of nothing but the
\* result of the one engine call
ResponseOf(method, res) ==
    CASE res.kind = "InvalidKey" -> JsonError(BAD_REQUEST, res.msg)
      [] res.kind = "NotFound" -> JsonError(NOT_FOUND, NotFoundBody(res.key))
      [] res.kind = "Io" -> JsonError(INTERNAL_SERVER_ERROR, IoBody(res.err))
      [] method = "PUT" -> Response(CREATED, "", <<>>, <<>>, NoMsg)
      [] method = "GET" -> Response(OK, "application/octet-stream",
                                    to_string(Len(res.bytes)), res.bytes, NoMsg)
      [] OTHER -> Response(NO_CONTENT, "", <<>>, <<>>, NoMsg)

\* the handler made the one engine call, left the store as that call left
\* it, and answered with the response of its result
Translates(h, method, call, o) ==
    /\ h.engine = <<call>>
    /\ h.fs = o.fs
    /\ h.resp = ResponseOf(method, o.res)

\* C21: every PUT, GET and DELETE with a non-empty key makes exactly one
\* engine call, of the matching kind and with the key and body as received;
\* the store afterwards is the one that call left, also when it failed (no
\* second call, no fallback); and the response depends on the result of that
\* call alone, a GET passing the bytes through unchanged.
C21_PureTranslation ==
    \A k \in Keys \ {<<>>} :
        /\ Translates(get_object(Fs, k), "GET", EngineCall("get", k, <<>>), get(Fs, k))
        /\ Translates(delete_object(Fs, k), "DELETE", EngineCall("delete", k, <<>>),
                      delete(Fs, k))
        /\ \A X \in Data :
            Translates(put_object(Fs, k, X), "PUT", EngineCall("put", k, X), put(Fs, k, X))

\* a PUT has just been answered 500: in this state a PUT fails in the engine
\* with an I/O error and the handler made that one call only, and a GET
\* passes two stored bytes through
C21_Witness ==
    /\ last = [op |-> "PUT", res |-> "Internal"]
    /\ \E k \in Keys \ {<<>>}, X \in Data :
        /\ put(Fs, k, X).res.kind = "Io"
        /\ put_object(Fs, k, X).resp.status = INTERNAL_SERVER_ERROR
        /\ Len(put_object(Fs, k, X).engine) = 1
    /\ \E k \in Keys : get_object(Fs, k).resp.bytes = <<1, 2>>

(***************************************************************************)
(* C22  No retries in the engine (checked in SpecAlias)                    *)
(***************************************************************************)
\* what get and delete return for the error of their one filesystem call
ErrorOf(k, err) == IF err = "ENOENT" THEN NotFound(k) ELSE Io(err)

CallNames(o) == [i \in 1..Len(o.calls) |-> o.calls[i].call]

\* get made the one read of the path of k and returned its bytes, or its
\* error at once
OneRead(k) ==
    LET o == get(Fs, k)
        r == fs_read(Fs, join(RootText, k))
    IN /\ CallNames(o) = <<"read">>
       /\ o.calls[1].path = join(RootText, k)
       /\ o.res = IF r.err = "" THEN Ok(r.bytes) ELSE ErrorOf(k, r.err)
       /\ o.fs = Fs

\* delete made the one remove_file of the path of k and returned Ok, or its
\* error at once with the store as it was
OneRemove(k) ==
    LET o == delete(Fs, k)
        r == fs_remove_file(Fs, join(RootText, k))
    IN /\ CallNames(o) = <<"remove_file">>
       /\ o.calls[1].path = join(RootText, k)
       /\ o.res = IF r.err = "" THEN Ok(<<>>) ELSE ErrorOf(k, r.err)
       /\ o.fs = r.fs

\* put made the directory creation for the parent of the path of k and, only
\* when that succeeded, the one write of the path; it returned the error of
\* the call that failed
DirsThenOneWrite(k, d) ==
    LET o == put(Fs, k, d)
        mk == create_dir_all(Fs, parent(join(RootText, k)).text)
        w == fs_write(mk.fs, join(RootText, k), d)
    IN IF mk.err # ""
       THEN CallNames(o) = <<"create_dir_all">> /\ o.res = Io(mk.err) /\ o.fs = mk.fs
       ELSE /\ CallNames(o) = <<"create_dir_all", "write">>
            /\ o.calls[2].path = join(RootText, k)
            /\ o.res = IF w.err = "" THEN Ok(<<>>) ELSE Io(w.err)
            /\ o.fs = IF w.err = "" THEN w.fs ELSE mk.fs

\* C22: for every key that passes validation, get issues exactly one read
\* and delete exactly one remove_file, and put issues the directory creation
\* followed by exactly one write; the error of a failed call is returned at
\* once and the call is not issued again: NotFound(k) when the read or the
\* remove_file reports that the file is not there (ENOENT), Io with that
\* error otherwise; a put whose directory creation fails issues no write. A
\* key that fails validation issues no call at all.
C22_NoRetries ==
    \A k \in AliasKeys :
        IF ValidKey(k)
        THEN OneRead(k) /\ OneRemove(k) /\ \A d \in Data \cup ConcData : DirsThenOneWrite(k, d)
        ELSE /\ get(Fs, k).calls = <<>>
             /\ delete(Fs, k).calls = <<>>
             /\ \A d \in Data \cup ConcData : put(Fs, k, d).calls = <<>>

\* a delete has just failed with an I/O error; in this state a put fails in
\* its directory creation and issues no write, and a get returns the I/O
\* error of its one read
C22_Witness ==
    /\ last = [op |-> "delete", res |-> "Io"]
    /\ \E k \in AliasKeys :
        /\ ValidKey(k)
        /\ put(Fs, k, <<1, 2>>).res.kind = "Io"
        /\ CallNames(put(Fs, k, <<1, 2>>)) = <<"create_dir_all">>
        /\ get(Fs, k).res = Io("ENOTDIR")
        /\ Len(get(Fs, k).calls) = 1

(***************************************************************************)
(* C23  Startup ordering (checked in SpecStartup)                          *)
(***************************************************************************)
\* FileStorage::new has succeeded in this process: its root is a directory
StorageReady == last.op # "none" /\ is_dir(Fs, server.root)

\* a request has been handled
RequestHandled == last.op \in {"PUT", "GET", "DELETE"}

StartupOrder ==
    /\ server.bound => StorageReady
    /\ RequestHandled => (server.pc = "serving" /\ server.bound /\ StorageReady)
    /\ server.pc = "serving" => server.bound
    /\ server.pc = "exited" => (server.exit = <<EXIT_FAILURE>> /\ ~RequestHandled)
    /\ server.exit # <<>> => server.pc = "exited"

\* the step after the settings is FileStorage::new, and the process exits
\* exactly when it fails, with nothing bound
NewThenBind ==
    (server.pc = "new" /\ server' # server) =>
        /\ ~server.bound
        /\ last' = [op |-> "new", res |-> new(Fs, server.root).res.kind]
        /\ IF new(Fs, server.root).res.kind = "Ok"
           THEN server'.pc = "bind" /\ ~server'.bound
           ELSE server' = exit_failure(server)

\* the listener is bound only in the step after the storage was made, and
\* the process exits when the bind fails
BindThenServe ==
    /\ (server'.bound /\ ~server.bound) => (server.pc = "bind" /\ StorageReady)
    /\ (server.pc = "bind" /\ server' # server) =>
            (server'.bound \/ server' = exit_failure(server))

\* C23: the process makes the storage root before it binds the listener,
\* and handles a request only while it serves, after both have succeeded;
\* when the settings, the creation of the root or the bind fails it exits
\* with code 1, and a process that has exited has handled no request.
C23_StartupOrdering ==
    []StartupOrder /\ [][NewThenBind /\ BindThenServe]_vars

\* the process has exited with code 1 because the root could not be made
\* under the file /a: nothing is bound and no request was handled
C23_Witness ==
    /\ server.pc = "exited" /\ server.exit = <<EXIT_FAILURE>>
    /\ server.root = <<"/", "a", "/", "r">>
    /\ last = [op |-> "new", res |-> "Io"]
    /\ ~server.bound

(***************************************************************************)
(* C24  The filesystem is the only state (checked in SpecStartup)          *)
(***************************************************************************)
\* An engine instance holds its root and nothing else (lib.rs 9-12), so an
\* operation through any instance on the root /r is put / get / delete on
\* the filesystem as it is; a further instance comes from new on that root.
RootExists == is_dir(Fs, RootText)

\* new on the root that exists succeeds and changes nothing
NewKeepsObjects == new(Fs, RootText) = Outcome(Fs, Ok(<<>>), RootText, new(Fs, RootText).calls)

\* what an instance made after the operation that left fs2 gets for k
GetThroughLater(fs2, k) == get(new(fs2, RootText).fs, k).res

\* an object put through one instance is returned through an instance made
\* earlier (the store as the put left it) and through one made later, and
\* after a delete through one instance both get NotFound(k)
SharedThroughRoot ==
    \A k \in Keys \cup ConcKeys :
        LET x == delete(Fs, k) IN
        /\ \A d \in Data \cup ConcData :
            LET p == put(Fs, k, d) IN
            p.res.kind = "Ok" =>
                (get(p.fs, k).res = Ok(d) /\ GetThroughLater(p.fs, k) = Ok(d))
        /\ x.res.kind = "Ok" =>
                (get(x.fs, k).res = NotFound(k) /\ GetThroughLater(x.fs, k) = NotFound(k))

\* the new of a process that starts on an existing root succeeds and leaves
\* every directory and file as it was
RestartKeepsObjects ==
    (server.pc = "new" /\ server.root = RootText /\ RootExists /\ server' # server) =>
        (server'.pc = "bind" /\ UNCHANGED <<dirs, files>>)

\* C24: new on a root directory that exists succeeds and leaves every object
\* under it unchanged; an object put through one instance is returned by get
\* through any other instance on the same root, made earlier or later, and
\* after a successful delete through one instance get through the other
\* fails with NotFound(k).
C24_FilesystemOnlyState ==
    /\ [](RootExists => (NewKeepsObjects /\ SharedThroughRoot))
    /\ [][RestartKeepsObjects]_vars

\* a process started on a root that an earlier process left with objects:
\* its new has succeeded, and its GET is about to return the bytes the
\* earlier process had put
C24_Witness ==
    /\ last = [op |-> "new", res |-> "Ok"]
    /\ server.pc = "bind"
    /\ get(Fs, <<"c", "/", "a">>).res = Ok(<<1, 2>>)
    /\ get(Fs, <<"c", "/", "b">>).res = Ok(<<3>>)

(***************************************************************************)
(* C25  Key aliasing (checked in SpecAlias)                                *)
(***************************************************************************)
\* two accepted keys of different text that resolve to the same path
Aliases(k1, k2) == k1 # k2 /\ SamePath(k1, k2)

\* the key text ends in a separator or in a "." segment
TrailingForm(k) == Split(k)[Len(Split(k))] \in {<<>>, <<".">>}

\* a put under k1 is returned by get under k2, and a delete under k1 makes
\* get under k2 fail with NotFound(k2)
SameObject(k1, k2) ==
    LET x == delete(Fs, k1) IN
    /\ \A d \in ConcData :
        LET p == put(Fs, k1, d) IN
        p.res.kind = "Ok" => get(p.fs, k2).res = Ok(d)
    /\ x.res.kind = "Ok" => get(x.fs, k2).res = NotFound(k2)

\* under a form that ends in a separator or a "." segment no operation
\* reaches the object: put fails with an I/O error and get and delete do
\* not succeed, and no file is created, changed or removed
NeverReaches(k) ==
    /\ \A d \in ConcData :
        put(Fs, k, d).res.kind = "Io" /\ put(Fs, k, d).fs.files = files
    /\ get(Fs, k).res.kind \in {"NotFound", "Io"}
    /\ Stored(k) => get(Fs, k).res.kind = "Io"
    /\ delete(Fs, k).res.kind \in {"NotFound", "Io"} /\ delete(Fs, k).fs = Fs

\* C25 as stated: for every two accepted keys of different text that
\* normalise to the same path, a put under one is returned by get under the
\* other, and a delete under one makes get under the other fail with
\* NotFound carrying the key text of that get.
C25_AliasesEveryForm ==
    \A k1 \in AliasKeys, k2 \in AliasKeys : Aliases(k1, k2) => SameObject(k1, k2)

\* C25 amended: the same for two accepted forms neither of which ends in a
\* separator or a "." segment (forms that differ by interior "." segments
\* or doubled separators); an accepted form that ends in a separator or a
\* "." segment never reaches the object: put under it fails with an I/O
\* error, get and delete under it fail, and the object stays as it is.
C25_KeyAliasing ==
    /\ \A k1 \in AliasKeys, k2 \in AliasKeys :
        (Aliases(k1, k2) /\ ~TrailingForm(k1) /\ ~TrailingForm(k2)) => SameObject(k1, k2)
    /\ \A k \in AliasKeys : (ValidKey(k) /\ TrailingForm(k)) => NeverReaches(k)

\* a put under one form has just succeeded: the object at c/a is returned
\* by get under "c//a" and "c/./a", and a delete under "c//a" removes it
C25_Witness ==
    /\ last = [op |-> "put", res |-> "Ok"]
    /\ get(Fs, <<"c", "/", "a">>).res = Ok(<<1, 2>>)
    /\ get(Fs, <<"c", "/", "/", "a">>).res = Ok(<<1, 2>>)
    /\ get(Fs, <<"c", "/", ".", "/", "a">>).res = Ok(<<1, 2>>)
    /\ get(delete(Fs, <<"c", "/", "/", "a">>).fs, <<"c", "/", "a">>).res
            = NotFound(<<"c", "/", "a">>)

(***************************************************************************)
(* C26  Stored keys are prefix-free (checked in SpecNested)                *)
(***************************************************************************)
\* no file stands above another file, and nothing is both a file and a
\* directory
PrefixFree ==
    /\ \A n1 \in DOMAIN files, n2 \in DOMAIN files : n1 # n2 => ~IsPrefix(n1, n2)
    /\ \A n \in DOMAIN files, m \in dirs : ~IsPrefix(n, m)

\* a stored object stands at an ancestor path of k
AncestorStored(k) == \E n \in AncestorNodes(k) : Kind(Fs, n) = "file"

NamesDirectory(k) == Kind(Fs, ObjectNode(k)) = "dir"

\* C26: in every state reached by put, get and delete calls no stored
\* object's path is an ancestor of another stored object's path (nor of a
\* directory); a put(k, d) where a stored object stands at an ancestor path
\* of k, or where k names an existing directory, fails with an I/O error
\* and no file is created or changed.
C26_PrefixFree ==
    /\ PrefixFree
    /\ \A k \in NestedKeys :
        (AncestorStored(k) \/ NamesDirectory(k)) =>
            \A d \in Data :
                /\ put(Fs, k, d).res.kind = "Io"
                /\ put(Fs, k, d).fs.files = files

\* a put has just failed with an I/O error on a store that holds the object
\* a/a under the directory a: a put to "a" (a directory) and a put to
\* "a/a/b" (under a stored object) both fail
C26_Witness ==
    /\ last = [op |-> "put", res |-> "Io"]
    /\ Stored(<<"a", "/", "a">>)
    /\ NamesDirectory(<<"a">>) /\ put(Fs, <<"a">>, <<1, 2>>).res = Io("EISDIR")
    /\ AncestorStored(<<"a", "/", "a", "/", "b">>)
    /\ put(Fs, <<"a", "/", "a", "/", "b">>, <<1, 2>>).res.kind = "Io"

(***************************************************************************)
(* C27  A failed put keeps the old object (checked in SpecFault)           *)
(***************************************************************************)
\* C27 as stated: when put(k, dNew) on a key that holds dOld fails with an
\* I/O error, at the directory creation, at the open or at the write, get(k)
\* right after it returns exactly dOld: k is not left empty, truncated or
\* partly overwritten.
C27_FailedPutKeepsOld ==
    \A k \in ConcKeys, dNew \in Data \cup ConcData :
        \A fault \in Faults(dNew) :
            LET o == put_under(Fs, k, dNew, fault) IN
            (Stored(k) /\ o.res.kind = "Io") =>
                get(o.fs, k).res = Ok(files[ObjectNode(k)])

====
